---- MODULE Spec2Model ----
(***************************************************************************)
(* A model of OGF_Table2Folder.py (OrthoFinder_OGFilter).                  *)
(*                                                                         *)
(* The script builds an argparse parser at import time (lines 44-56),      *)
(* defines class Table2Folder with three methods and runs them in order    *)
(* from main() (lines 204-216):                                            *)
(*   MainDir2OFolder  - the Locator      (lines 67-110)                    *)
(*   OFolder2List     - the Selector     (lines 112-168)                   *)
(*   List2Folder      - the Materializer (lines 171-202)                   *)
(*                                                                         *)
(* Python is dynamically typed, and several statements of the script raise *)
(* on every execution (range() of floats, os.chdir() without a path,       *)
(* int() of a list, list + str, os.path.join() of a function object).      *)
(* Each such statement is modelled by an operator that says when the       *)
(* Python operation raises, and the action that contains it ends in the    *)
(* state the exception leaves behind.                                      *)
(*                                                                         *)
(* Four specifications share the variables and the actions:                *)
(*   Spec             the script as it is run from the command line        *)
(*   SpecLocator      MainDir2OFolder called on a constructed object       *)
(*   SpecSelector     OFolder2List, then List2Folder (main, lines 215-216) *)
(*                    called on an object whose working directory is a run *)
(*                    folder                                               *)
(*   SpecMaterializer List2Folder called with a FilteredOrthologs.txt in   *)
(*                    the working directory                                *)
(***************************************************************************)
EXTENDS Integers, Sequences, FiniteSets, TLC

(***************************************************************************)
(* Bounds of the model.                                                    *)
(***************************************************************************)
MaxRows == 2      \* data rows of Orthogroups.GeneCount.tsv
MaxTaxa == 2      \* taxon columns of the header
MaxRuns == 3      \* run directories below OrthoFinder/
MaxInputs == 2    \* lines the user types at the prompt
MaxList == 2      \* lines of a FilteredOrthologs.txt handed to List2Folder

(***************************************************************************)
(* Python values.  An unassigned name, an absent file: None; else Some(v). *)
(***************************************************************************)
None == <<>>
Some(v) == <<v>>
Get(o) == o[1]

NoError == [type |-> "", line |-> 0]
Raise(type, line) == [type |-> type, line |-> line]

\* A Python float or int as an exact fraction with a positive denominator.
Frac(n, d) == [num |-> n, den |-> d]
FracLeq(a, b) == a.num * b.den <= b.num * a.den

(***************************************************************************)
(* The inputs: command-line thresholds, tables, directory listings.        *)
(***************************************************************************)
MissingValues == {Frac(-1, 2), Frac(0, 1), Frac(1, 2), Frac(1, 1), Frac(3, 2)}
CopiesValues == {-1, 0, 1, 2}
Thresholds == [missing : MissingValues, copies : CopiesValues]

OGs == <<"OG1", "OG2", "OG3", "OG4">>
Taxa == <<"Sp1", "Sp2", "Sp3", "Sp4">>
RunNames == <<"Results_Jan01", "Results_Jan02", "Results_Jan03", "Results_Jan04">>
CountFields == {"0", "2"}
TotalField == "9"

\* A line of the table is the list of its fields, as line.strip().split('\t')
\* returns it (line 137).
HeaderLine(T) == <<"Orthogroup">> \o SubSeq(Taxa, 1, T) \o <<"Total">>

WellFormedLines(T, r) ==
    {<<OGs[r]>> \o c \o <<TotalField>> : c \in [1..T -> CountFields]}

\* Rows a table should not have: the identifier alone, no count at all, a
\* count that is no integer, a negative count.
MalformedLines(T, r) ==
    {<<OGs[r]>>}
      \cup (IF T >= 1
            THEN {<<OGs[r], TotalField>>,
                  <<OGs[r]>> \o [j \in 1..T |-> IF j = 1 THEN "x" ELSE "0"] \o <<TotalField>>,
                  <<OGs[r]>> \o [j \in 1..T |-> IF j = 1 THEN "-1" ELSE "0"] \o <<TotalField>>}
            ELSE {})

Lines(T, r) == WellFormedLines(T, r) \cup MalformedLines(T, r)

DataRows(T, n) ==
    {rows \in [1..n -> UNION {Lines(T, r) : r \in 1..n}] :
        \A r \in 1..n : rows[r] \in Lines(T, r)}

Tables ==
    UNION {{<<HeaderLine(T)>> \o rows : rows \in DataRows(T, n)} :
             T \in 0..MaxTaxa, n \in 0..MaxRows}

VARIABLES
    argv,            \* the --missing and --copies values of the command line
    self,            \* the Table2Folder object: missing, copies (lines 61-65)
    fs,              \* the file system below the input directory
    stdin,           \* the lines the user will type at the prompt
    pc,              \* where the program is
    cwd,             \* the process's working directory, below the input directory
    raised,          \* the exception that ended the program, or NoError
    ortologs,        \* OFolder2List: the lines read (line 126)
    i,               \* OFolder2List: index of the next line of ortologs[1:]
    line_list,       \* OFolder2List (line 129)
    missing_list,    \* OFolder2List (line 131)
    final_list,      \* OFolder2List (line 133): references to missing_list
    first_elements,  \* OFolder2List (line 158), None until assigned
    og_names,        \* List2Folder (line 184), None until assigned
    og_count,        \* List2Folder (line 187), None until assigned
    stdout           \* what was printed

vars == <<argv, self, fs, stdin, pc, cwd, raised, ortologs, i, line_list,
          missing_list, final_list, first_elements, og_names, og_count, stdout>>

locals == <<ortologs, i, line_list, missing_list, final_list, first_elements,
            og_names, og_count>>

(***************************************************************************)
(* The file system, relative to the input directory (self.of_dir):         *)
(*   OrthoFinder/             exists?                                      *)
(*   OrthoFinder/<run>/       the run directories, in os.listdir order     *)
(* and, inside the run directory the program works in:                     *)
(*   Orthogroups/                          exists?                         *)
(*   Orthogroups/Orthogroups.GeneCount.tsv None, or its lines              *)
(*   Orthogroup_Sequences/<name>           the set of file names           *)
(*   FilteredOrthologs.txt                 None, or its text               *)
(*   Filtered_Orthologs/                   None, or the set of file names  *)
(***************************************************************************)
MakeFs(of, runs, og, tsv, seqs, list, filtered) ==
    [OrthoFinder |-> of, runs |-> runs, Orthogroups |-> og, tsv |-> tsv,
     Orthogroup_Sequences |-> seqs, FilteredOrthologs |-> list,
     Filtered_Orthologs |-> filtered]

RunFolder == <<"OrthoFinder", RunNames[1]>>


(***************************************************************************)
(* Integer literals: int(s) of the strings the model uses (lines 99, 153). *)
(***************************************************************************)
IsIntLiteral(s) == s \in {"-1", "0", "1", "2", "3", "4", "5", "9"}
IntOf(s) ==
    CASE s = "-1" -> -1
      [] s = "0" -> 0
      [] s = "1" -> 1
      [] s = "2" -> 2
      [] s = "3" -> 3
      [] s = "4" -> 4
      [] s = "5" -> 5
      [] s = "9" -> 9

(***************************************************************************)
(* Text files.  A text is the sequence of the pieces written to it; a line *)
(* break is the piece "\n".  SplitLines is file.read().splitlines()        *)
(* (line 184).                                                             *)
(***************************************************************************)
NL == "\n"

RECURSIVE SplitFrom(_, _, _)
SplitFrom(text, k, line) ==
    IF k > Len(text)
    THEN IF line = "" THEN <<>> ELSE <<line>>
    ELSE IF text[k] = NL
         THEN <<line>> \o SplitFrom(text, k + 1, "")
         ELSE SplitFrom(text, k + 1, line \o text[k])

SplitLines(text) == SplitFrom(text, 1, "")

(***************************************************************************)
(* OFolder2List, lines 135-155: the body of "for line in ortologs[1:]".    *)
(***************************************************************************)
\* columns[:-1] (line 140)
AllButLast(columns) == SubSeq(columns, 1, Len(columns) - 1)

\* entries == 0 (line 147): entries is a list; a list never equals an int.
ListEqualsInt(entries, k) == FALSE

\* np.count_nonzero of a single bool (line 147)
count_nonzero(b) == IF b THEN 1 ELSE 0

\* Line 147, for len(entries) # 1: numerator and denominator of proportion.
Proportion(entries) ==
    [num |-> count_nonzero(ListEqualsInt(entries, 0)), den |-> Len(entries) - 1]

\* The comparison of line 148 turned around: proportion >= missing.
ProportionGeqMissing(p, missing) ==
    IF p.den > 0
    THEN p.num * missing.den >= missing.num * p.den
    ELSE p.num * missing.den <= missing.num * p.den

\* proportion <= missing (line 148); the denominator is -1 for an empty list.
ProportionLeqMissing(p, missing) ==
    IF p.den > 0
    THEN p.num * missing.den <= missing.num * p.den
    ELSE p.num * missing.den >= missing.num * p.den

\* Lines 146-149: "for entries in line_list", over ALL the rows kept so far.
RECURSIVE MissingLoop(_, _, _)
MissingLoop(todo, mlist, missing) ==
    IF todo = <<>>
    THEN [raised |-> NoError, missing_list |-> mlist]
    ELSE LET entries == Head(todo) IN
         IF Len(entries) - 1 = 0
         THEN [raised |-> Raise("ZeroDivisionError", 147), missing_list |-> mlist]
         ELSE MissingLoop(Tail(todo),
                          IF ProportionLeqMissing(Proportion(entries), missing)
                          THEN Append(mlist, entries)
                          ELSE mlist,
                          missing)

\* list(map(int, missing_list[1:])) (line 153): the elements of missing_list
\* are lists, and int() of a list raises TypeError.
MapInt(lists) ==
    IF lists = <<>>
    THEN [raised |-> NoError, integers |-> <<>>]
    ELSE [raised |-> Raise("TypeError", 153), integers |-> <<>>]

\* Lines 151-155: "for entries in missing_list"; todo counts the iterations
\* left.  final_list.append(missing_list) appends a reference to the list
\* object itself, not a copy of a row.
RECURSIVE CopiesLoop(_, _, _, _)
CopiesLoop(todo, mlist, flist, copies) ==
    IF todo = 0
    THEN [raised |-> NoError, final_list |-> flist]
    ELSE LET m == MapInt(Tail(mlist)) IN
         IF m.raised # NoError
         THEN [raised |-> m.raised, final_list |-> flist]
         ELSE CopiesLoop(todo - 1, mlist,
                         IF \A k \in 1..Len(m.integers) : m.integers[k] <= copies
                         THEN Append(flist, "missing_list")
                         ELSE flist,
                         copies)

\* One iteration of the outer loop (lines 137-155) on the three lists.
LoopBody(st, line, missing, copies) ==
    LET columns == AllButLast(line)
        ll == Append(st.line_list, columns)
        m == MissingLoop(ll, st.missing_list, missing)
        c == CopiesLoop(Len(m.missing_list), m.missing_list, st.final_list, copies)
    IN  IF m.raised # NoError
        THEN [line_list |-> ll, missing_list |-> m.missing_list,
              final_list |-> st.final_list, raised |-> m.raised]
        ELSE [line_list |-> ll, missing_list |-> m.missing_list,
              final_list |-> c.final_list, raised |-> c.raised]

\* The whole loop of lines 135-155 over ortologs[1:], from line k on.
RECURSIVE RunLoop(_, _, _, _, _)
RunLoop(lines, k, st, missing, copies) ==
    IF k > Len(lines) \/ st.raised # NoError
    THEN st
    ELSE RunLoop(lines, k + 1, LoopBody(st, lines[k], missing, copies),
                 missing, copies)

\* [entry[0] for entry in final_list] (line 158): every entry is missing_list.
FirstElements(flist, mlist) ==
    IF flist # <<>> /\ mlist = <<>>
    THEN [raised |-> Raise("IndexError", 158), value |-> <<>>]
    ELSE [raised |-> NoError, value |-> [k \in 1..Len(flist) |-> mlist[1]]]

\* Line 166 with the element converted first: str(element) + "\n" writes the
\* list's repr.
ElementPlusNewlineStr(element) ==
    [raised |-> NoError,
     text |-> <<IF element = <<>> THEN "[]" ELSE "['" \o element[1] \o "', ...]", NL>>]

\* element + "\n" (line 166): element is a row, a list; list + str raises.
ElementPlusNewline(element) ==
    [raised |-> Raise("TypeError", 166), text |-> <<>>]

\* Lines 165-166: the file is open (and empty) when the loop starts.
RECURSIVE WriteLoop(_, _)
WriteLoop(elements, text) ==
    IF elements = <<>>
    THEN [raised |-> NoError, text |-> text]
    ELSE LET w == ElementPlusNewline(Head(elements)) IN
         IF w.raised # NoError
         THEN [raised |-> w.raised, text |-> text]
         ELSE WriteLoop(Tail(elements), text \o w.text)

\* Lines 116-133: enter Orthogroups/, check the table exists, read it.
OFolder2ListOpen ==
    /\ pc = "OFolder2List"
    /\ IF ~fs.Orthogroups
       THEN /\ raised' = Raise("FileNotFoundError", 117)
            /\ pc' = "error"
            /\ UNCHANGED <<cwd, locals>>
       ELSE /\ cwd' = Append(cwd, "Orthogroups")
            /\ IF fs.tsv = None
               THEN /\ raised' = Raise("FileNotFoundError", 123)
                    /\ pc' = "error"
                    /\ UNCHANGED locals
               ELSE /\ ortologs' = Get(fs.tsv)
                    /\ i' = 2
                    /\ line_list' = <<>>
                    /\ missing_list' = <<>>
                    /\ final_list' = <<>>
                    /\ pc' = "for_line"
                    /\ UNCHANGED <<raised, first_elements, og_names, og_count>>
    /\ UNCHANGED <<argv, self, fs, stdin, stdout>>

\* Lines 135-155: one line of ortologs[1:].
OFolder2ListLine ==
    /\ pc = "for_line"
    /\ i <= Len(ortologs)
    /\ LET st == LoopBody([line_list |-> line_list, missing_list |-> missing_list,
                           final_list |-> final_list, raised |-> NoError],
                          ortologs[i], Get(self).missing, Get(self).copies)
       IN  /\ line_list' = st.line_list
           /\ missing_list' = st.missing_list
           /\ final_list' = st.final_list
           /\ raised' = st.raised
           /\ pc' = IF st.raised # NoError THEN "error" ELSE "for_line"
           /\ i' = IF st.raised # NoError THEN i ELSE i + 1
    /\ UNCHANGED <<argv, self, fs, stdin, cwd, ortologs, first_elements,
                   og_names, og_count, stdout>>

\* Lines 157-168: after the loop, write FilteredOrthologs.txt one level up.
OFolder2ListWrite ==
    /\ pc = "for_line"
    /\ i > Len(ortologs)
    /\ LET fe == FirstElements(final_list, missing_list)
           w == WriteLoop(fe.value, <<>>)
       IN  IF fe.raised # NoError
           THEN /\ raised' = fe.raised
                /\ pc' = "error"
                /\ UNCHANGED <<cwd, fs, first_elements, stdout>>
           ELSE /\ first_elements' = Some(fe.value)
                /\ cwd' = AllButLast(cwd)
                /\ fs' = [fs EXCEPT !.FilteredOrthologs = Some(w.text)]
                /\ raised' = w.raised
                /\ pc' = IF w.raised # NoError THEN "error" ELSE "List2Folder"
                /\ stdout' = IF w.raised # NoError
                             THEN stdout
                             ELSE Append(stdout, "Orthologs succesfully retrieved.")
    /\ UNCHANGED <<argv, self, stdin, ortologs, i, line_list, missing_list,
                   final_list, og_names, og_count>>


(***************************************************************************)
(* List2Folder, lines 171-202.                                             *)
(***************************************************************************)
\* os.getcwd without the call (line 175): the function object, not a path.
os_getcwd == [type |-> "function", value |-> <<>>]

\* os.path.join(a, ...) raises TypeError unless a is a str (lines 83, 110, 176).
PathJoinRaises(a) == a.type # "str"

\* os.path.join of three components (lines 192, 196), below the working
\* directory.
PathJoin(a, b, c) == a \o "/" \o b \o "/" \o c

\* os.path.exists (line 194): the sequence files are plain files directly
\* inside Orthogroup_Sequences/.
PathExists(files, path) ==
    \E f \in files : path = "Orthogroup_Sequences" \o "/" \o f

\* Lines 190-200, "for label in og_names".  os.path.join(dir, label, ".fa")
\* names the entry ".fa" inside a directory called label.
RECURSIVE CopyLoop(_, _, _, _, _)
CopyLoop(labels, files, count, copied, out) ==
    IF labels = <<>>
    THEN [og_count |-> count, copied |-> copied, stdout |-> out]
    ELSE LET label == Head(labels)
             file_path == PathJoin("Orthogroup_Sequences", label, ".fa")
         IN  IF PathExists(files, file_path)
             THEN CopyLoop(Tail(labels), files, count + 1,
                           copied \cup {label \o "/" \o ".fa"}, out)
             ELSE CopyLoop(Tail(labels), files, count, copied,
                           Append(out, "File " \o label \o ".fa not found."))

List2Folder ==
    /\ pc = "List2Folder"
    /\ LET current_directory == os_getcwd IN
       IF PathJoinRaises(current_directory)
       THEN /\ raised' = Raise("TypeError", 176)
            /\ pc' = "error"
            /\ UNCHANGED <<fs, og_names, og_count, stdout>>
       ELSE LET made == IF fs.Filtered_Orthologs = None
                        THEN {}
                        ELSE Get(fs.Filtered_Orthologs)
            IN  IF fs.FilteredOrthologs = None
                THEN /\ fs' = [fs EXCEPT !.Filtered_Orthologs = Some(made)]
                     /\ raised' = Raise("FileNotFoundError", 183)
                     /\ pc' = "error"
                     /\ UNCHANGED <<og_names, og_count, stdout>>
                ELSE LET names == SplitLines(Get(fs.FilteredOrthologs))
                         c == CopyLoop(names, fs.Orthogroup_Sequences, 0, made, stdout)
                     IN  /\ og_names' = Some(names)
                         /\ og_count' = Some(c.og_count)
                         /\ fs' = [fs EXCEPT !.Filtered_Orthologs = Some(c.copied)]
                         /\ stdout' = Append(c.stdout,
                                ToString(c.og_count) \o " orthologs were identified and successfully copied.")
                         /\ pc' = "done"
                         /\ UNCHANGED raised
    /\ UNCHANGED <<argv, self, stdin, cwd, ortologs, i, line_list, missing_list,
                   final_list, first_elements>>

(***************************************************************************)
(* MainDir2OFolder, lines 67-110.                                          *)
(***************************************************************************)
\* os.chdir(*args) raises TypeError without its path argument (line 76).
ChdirRaises(args) == Len(args) = 0

\* Lines 97-108, "while True": what the loop leaves for the inputs typed.
\* input() raises EOFError when nothing is left to read.
RECURSIVE PromptLoop(_, _, _)
PromptLoop(runs, inputs, out) ==
    IF inputs = <<>>
    THEN [raised |-> Raise("EOFError", 99), selected_run |-> None, stdout |-> out]
    ELSE LET typed == Head(inputs) IN
         IF ~IsIntLiteral(typed)
         THEN PromptLoop(runs, Tail(inputs),
                         Append(out, "Invalid input. Please enter a number."))
         ELSE IF 1 <= IntOf(typed) /\ IntOf(typed) <= Len(runs)
              THEN [raised |-> NoError,
                    selected_run |-> Some(runs[IntOf(typed)]),
                    stdout |-> Append(out, "Found OrthoFinder run folder.")]
              ELSE PromptLoop(runs, Tail(inputs), Append(out, "Out of bounds."))

MainDir2OFolder ==
    /\ pc = "MainDir2OFolder"
    /\ IF ~fs.OrthoFinder
       THEN /\ raised' = Raise("FileNotFoundError", 74)
            /\ pc' = "error"
            /\ UNCHANGED <<cwd, stdout>>
       ELSE /\ cwd' = <<"OrthoFinder">>
            /\ IF ChdirRaises(<<>>)
               THEN /\ raised' = Raise("TypeError", 76)
                    /\ pc' = "error"
                    /\ UNCHANGED stdout
               ELSE \* os.chdir returns None: of_folder is None, and
                    \* os.listdir(None) lists the working directory.
                    LET of_folder == [type |-> "NoneType", value |-> <<>>]
                        runs == fs.runs
                        p == PromptLoop(runs, stdin, <<"Please choose the desired OrthoFinder run:">>)
                    IN  /\ pc' = "error"
                        /\ raised' =
                             IF Len(runs) = 1 THEN Raise("TypeError", 83)
                             ELSE IF Len(runs) = 0 THEN Raise("FileNotFoundError", 89)
                             ELSE IF p.raised # NoError THEN p.raised
                             ELSE IF PathJoinRaises(of_folder) THEN Raise("TypeError", 110)
                             ELSE NoError
                        /\ stdout' = IF Len(runs) > 1 THEN p.stdout ELSE stdout
    /\ UNCHANGED <<argv, self, fs, stdin, locals>>

(***************************************************************************)
(* The module level, lines 44-56, and main(), lines 204-211.               *)
(***************************************************************************)
PyFloat(n, d) == [type |-> "float", value |-> Frac(n, d)]

\* range(start, stop) raises TypeError unless both are ints (line 52).
RangeRaises(start, stop) == start.type # "int" \/ stop.type # "int"

\* range(start, stop) as a set, for ints; x in range(...) for a float x that
\* is a whole number.
RangeContains(start, stop, x) ==
    /\ x.num % x.den = 0
    /\ start.value.num <= x.num \div x.den
    /\ x.num \div x.den < stop.value.num

ParseArgs ==
    /\ pc = "parse_args"
    /\ IF RangeRaises(PyFloat(1, 10), PyFloat(1, 1))
       THEN /\ raised' = Raise("TypeError", 52)
            /\ pc' = "error"
            /\ UNCHANGED self
       ELSE IF ~RangeContains(PyFloat(1, 10), PyFloat(1, 1), argv.missing)
            THEN /\ raised' = Raise("SystemExit", 56)
                 /\ pc' = "error"
                 /\ UNCHANGED self
            ELSE /\ self' = Some([missing |-> argv.missing, copies |-> argv.copies])
                 /\ pc' = "MainDir2OFolder"
                 /\ UNCHANGED raised
    /\ UNCHANGED <<argv, fs, stdin, cwd, locals, stdout>>

(***************************************************************************)
(* Initial states and specifications.                                      *)
(***************************************************************************)
Start(p, a, s, f, typed, dir) ==
    /\ pc = p
    /\ argv = a
    /\ self = s
    /\ fs = f
    /\ stdin = typed
    /\ cwd = dir
    /\ raised = NoError
    /\ ortologs = <<>>
    /\ i = 0
    /\ line_list = <<>>
    /\ missing_list = <<>>
    /\ final_list = <<>>
    /\ first_elements = None
    /\ og_names = None
    /\ og_count = None
    /\ stdout = <<>>

DefaultArgs == [missing |-> Frac(1, 2), copies |-> 2]
DefaultTable == <<HeaderLine(1), <<OGs[1], "2", TotalField>>>>
FaName(label) == label \o ".fa"

Listings == {SubSeq(RunNames, 1, k) : k \in 0..MaxRuns}
TypedLines == {"x", "0", "1", "2", "5"}
TypedSeqs == UNION {[1..n -> TypedLines] : n \in 0..MaxInputs}

\* The script run from the command line.
Init ==
    \E a \in Thresholds, of \in BOOLEAN, runs \in Listings :
        Start("parse_args", a, None,
              MakeFs(of, runs, TRUE, Some(DefaultTable), {FaName(OGs[1])}, None, None),
              <<>>, <<>>)

Next == ParseArgs

Spec == Init /\ [][Next]_vars

\* table2folder.MainDir2OFolder() on a constructed object (line 214).
InitLocator ==
    \E of \in BOOLEAN, runs \in Listings, typed \in TypedSeqs :
        Start("MainDir2OFolder", DefaultArgs, Some(DefaultArgs),
              MakeFs(of, runs, TRUE, Some(DefaultTable), {FaName(OGs[1])}, None, None),
              typed, <<>>)

NextLocator == MainDir2OFolder

SpecLocator == InitLocator /\ [][NextLocator]_vars

\* table2folder.OFolder2List() and then table2folder.List2Folder()
\* (lines 215-216), the working directory being a run folder.
TableFiles ==
    {[Orthogroups |-> TRUE, tsv |-> Some(t)] : t \in Tables}
      \cup {[Orthogroups |-> TRUE, tsv |-> None], [Orthogroups |-> FALSE, tsv |-> None]}

InitSelector ==
    \E th \in Thresholds, tf \in TableFiles :
        Start("OFolder2List", th, Some(th),
              MakeFs(TRUE, <<RunNames[1]>>, tf.Orthogroups, tf.tsv,
                     {FaName(OGs[1])}, None, None),
              <<>>, RunFolder)

NextSelector ==
    \/ OFolder2ListOpen
    \/ OFolder2ListLine
    \/ OFolder2ListWrite
    \/ List2Folder

SpecSelector == InitSelector /\ [][NextSelector]_vars

\* table2folder.List2Folder() with a list file in the working directory.
ListLabels == {OGs[1], OGs[2], "OG9"}

RECURSIVE TextOf(_)
TextOf(labels) ==
    IF labels = <<>> THEN <<>> ELSE <<Head(labels), NL>> \o TextOf(Tail(labels))

ListFiles == {TextOf(l) : l \in UNION {[1..n -> ListLabels] : n \in 0..MaxList}}

InitMaterializer ==
    \E text \in ListFiles, seqs \in SUBSET {FaName(OGs[1]), FaName(OGs[2])},
       dest \in {None, Some({})} :
        Start("List2Folder", DefaultArgs, Some(DefaultArgs),
              MakeFs(TRUE, <<RunNames[1]>>, TRUE, Some(DefaultTable), seqs,
                     Some(text), dest),
              <<>>, RunFolder)

NextMaterializer == List2Folder

SpecMaterializer == InitMaterializer /\ [][NextMaterializer]_vars


(***************************************************************************)
(* What the specification says of a table, for the properties below.      *)
(***************************************************************************)
TaxonCount(table) == Len(table[1]) - 2
IdColumn(table) == [r \in 1..(Len(table) - 1) |-> table[r + 1][1]]
CountsOf(row) == SubSeq(row, 2, Len(row) - 1)

ValidRow(row, T) ==
    /\ Len(row) = T + 2
    /\ \A j \in 2..(T + 1) : IsIntLiteral(row[j]) /\ IntOf(row[j]) >= 0

ValidTable(table) ==
    /\ Len(table) >= 1
    /\ TaxonCount(table) >= 1
    /\ \A r \in 2..Len(table) : ValidRow(table[r], TaxonCount(table))
    /\ \A r, q \in 2..Len(table) : table[r][1] = table[q][1] => r = q

ValidThresholds(th) ==
    /\ FracLeq(Frac(0, 1), th.missing)
    /\ FracLeq(th.missing, Frac(1, 1))
    /\ th.copies >= 0

\* missing_count / T <= max_missing_fraction and max(counts) <= max_copies
Qualifies(row, T, th) ==
    LET counts == CountsOf(row)
        missing_count == Cardinality({j \in 1..T : IntOf(counts[j]) = 0})
    IN  /\ missing_count * th.missing.den <= th.missing.num * T
        /\ \A j \in 1..T : IntOf(counts[j]) <= th.copies

\* The identifiers of a selection: the first field of each selected row.
IdSeq(elements) ==
    [k \in 1..Len(elements) |-> IF elements[k] = <<>> THEN "" ELSE elements[k][1]]
IdSet(elements) ==
    {elements[k][1] : k \in {n \in 1..Len(elements) : elements[n] # <<>>}}

\* The selection OFolder2List holds after its loop (line 158); nothing is
\* selected by a call that raised before.
SelectedIds == IF first_elements = None THEN {} ELSE IdSet(Get(first_elements))

\* The selection of a whole call on a table under other thresholds.
SelectionUnder(table, th) ==
    LET st == RunLoop(table, 2,
                      [line_list |-> <<>>, missing_list |-> <<>>,
                       final_list |-> <<>>, raised |-> NoError],
                      th.missing, th.copies)
        fe == FirstElements(st.final_list, st.missing_list)
    IN  IF st.raised # NoError \/ fe.raised # NoError THEN {} ELSE IdSet(fe.value)

RECURSIVE IsSubsequence(_, _)
IsSubsequence(s, t) ==
    IF s = <<>> THEN TRUE
    ELSE IF t = <<>> THEN FALSE
    ELSE IF Head(s) = Head(t) THEN IsSubsequence(Tail(s), Tail(t))
    ELSE IsSubsequence(s, Tail(t))

HasTable == fs.tsv # None
Table == Get(fs.tsv)
SelectorEnded == pc \in {"List2Folder", "done", "error"}
SelectorRaised == raised # NoError /\ raised.line <= 168
MaterializerEnded == pc = "done" \/ (pc = "error" /\ raised.line >= 171)
NothingMaterialized ==
    fs.Filtered_Orthologs = None \/ Get(fs.Filtered_Orthologs) = {}

(***************************************************************************)
(* C1.  When OFolder2List has ended on a valid table under valid           *)
(* thresholds, a data row's group_id is in its selection if and only if    *)
(* the row's fraction of zero counts is at most max_missing_fraction and   *)
(* its largest count is at most max_copies.                                *)
(***************************************************************************)
C1_SelectionIsThresholdTest ==
    (SelectorEnded /\ HasTable /\ ValidTable(Table) /\ ValidThresholds(Get(self)))
    => \A r \in 2..Len(Table) :
          (Table[r][1] \in SelectedIds)
            <=> Qualifies(Table[r], TaxonCount(Table), Get(self))

C3_ThresholdsMonotonic ==
    (HasTable /\ first_elements # None)
    => \A th2 \in Thresholds :
          (FracLeq(Get(self).missing, th2.missing) /\ Get(self).copies <= th2.copies)
          => SelectedIds \subseteq SelectionUnder(Table, th2)

\* A group_id is selected, and strictly larger thresholds exist.
C3_Witness ==
    /\ HasTable /\ ValidTable(Table) /\ first_elements # None
    /\ SelectedIds # {}
    /\ \E th2 \in Thresholds :
          /\ th2.missing # Get(self).missing /\ th2.copies # Get(self).copies
          /\ FracLeq(Get(self).missing, th2.missing)
          /\ Get(self).copies <= th2.copies

(***************************************************************************)
(* C4.  The intermediate list round-trips: when List2Folder has ended,     *)
(* the identifiers it read from FilteredOrthologs.txt are the sequence     *)
(* OFolder2List selected and wrote, in the same order.                     *)
(***************************************************************************)
C4_ListRoundTrips ==
    (MaterializerEnded /\ first_elements # None)
    => /\ og_names # None
       /\ Get(og_names) = IdSeq(Get(first_elements))
       /\ Get(og_names) = SplitLines(Get(fs.FilteredOrthologs))

(***************************************************************************)
(* C5.  List2Folder attempts every identifier of the list in order: when   *)
(* it has ended it has not stopped on an error, every identifier whose     *)
(* <group_id>.fa exists in Orthogroup_Sequences has been copied under the  *)
(* same name, and the count it reports is the number of those identifiers. *)
(***************************************************************************)
C5_MaterializerCopiesAndCounts ==
    (MaterializerEnded /\ fs.FilteredOrthologs # None)
    => LET labels == SplitLines(Get(fs.FilteredOrthologs))
           present == {k \in 1..Len(labels) : FaName(labels[k]) \in fs.Orthogroup_Sequences}
       IN  /\ pc = "done"
           /\ og_count = Some(Cardinality(present))
           /\ fs.Filtered_Orthologs # None
           /\ \A k \in present : FaName(labels[k]) \in Get(fs.Filtered_Orthologs)

(***************************************************************************)
(* C6.  When no data row of a valid table qualifies (a header-only table   *)
(* included), the run is no error: once OFolder2List and List2Folder have  *)
(* run, the selection is empty, zero files are copied, the count reported  *)
(* is zero and the run has ended without an exception.                     *)
(***************************************************************************)
C6_EmptySelectionSucceeds ==
    (/\ pc \in {"done", "error"}
     /\ HasTable /\ ValidTable(Table) /\ ValidThresholds(Get(self))
     /\ \A r \in 2..Len(Table) : ~Qualifies(Table[r], TaxonCount(Table), Get(self)))
    => /\ pc = "done"
       /\ raised = NoError
       /\ first_elements = Some(<<>>)
       /\ og_count = Some(0)
       /\ NothingMaterialized

(***************************************************************************)
(* C7.  NotFound is fatal and precedes all output: when the root has no    *)
(* OrthoFinder directory, or that directory holds no run, or the table     *)
(* file is absent, the program ends with a not-found error, and            *)
(* FilteredOrthologs.txt has not been written, Filtered_Orthologs has not  *)
(* been created and nothing has been copied.                               *)
(***************************************************************************)
C7_NotFoundIsFatal ==
    (/\ pc \in {"done", "error"}
     /\ (~fs.OrthoFinder \/ fs.runs = <<>> \/ fs.tsv = None))
    => /\ raised.type = "FileNotFoundError"
       /\ fs.FilteredOrthologs = None
       /\ fs.Filtered_Orthologs = None

(***************************************************************************)
(* C8.  MalformedTable is fatal for the whole run: when the header yields  *)
(* zero taxa, or a data row has a non-integer or negative count or a       *)
(* column count other than the header's, OFolder2List ends in an error, no *)
(* list of the valid rows is written and no sequence file is copied.       *)
(***************************************************************************)
C8_MalformedTableIsFatal ==
    (/\ SelectorEnded
     /\ HasTable /\ Len(Table) >= 1 /\ ValidThresholds(Get(self))
     /\ \/ TaxonCount(Table) = 0
        \/ \E r \in 2..Len(Table) : ~ValidRow(Table[r], TaxonCount(Table)))
    => /\ SelectorRaised
       /\ fs.FilteredOrthologs = None \/ SplitLines(Get(fs.FilteredOrthologs)) = <<>>
       /\ NothingMaterialized

(***************************************************************************)
(* C9.  InvalidThreshold is fatal and caught before anything else: once    *)
(* the command line has been handled, a missing-taxa fraction outside      *)
(* [0,1] or a negative copy count has ended the run before any step of the *)
(* Locator, and every fraction in [0,1] with every non-negative copy count *)
(* has been accepted.                                                      *)
(***************************************************************************)
C9_ThresholdsValidated ==
    (pc # "parse_args")
    => IF ValidThresholds(argv)
       THEN raised = NoError /\ self = Some(argv)
       ELSE raised # NoError /\ cwd = <<>> /\ self = None

(***************************************************************************)
(* C10.  When MainDir2OFolder has ended on an OrthoFinder directory that   *)
(* lists at least one run, the working directory is a listed run: the      *)
(* single run when there is one, and, when there are several and the user  *)
(* typed a number k in 1..len(runs), the k-th run for the first such k.    *)
(***************************************************************************)
FirstChoice(runs, typed) ==
    LET valid == {k \in 1..Len(typed) :
                     /\ IsIntLiteral(typed[k])
                     /\ 1 <= IntOf(typed[k]) /\ IntOf(typed[k]) <= Len(runs)}
    IN  IF valid = {} THEN 0
        ELSE IntOf(typed[CHOOSE k \in valid : \A n \in valid : k <= n])

C10_EntersListedRun ==
    (pc \in {"OFolder2List", "done", "error"} /\ fs.OrthoFinder /\ fs.runs # <<>>)
    => /\ Len(cwd) = 2 => \E k \in 1..Len(fs.runs) : cwd = <<"OrthoFinder", fs.runs[k]>>
       /\ Len(fs.runs) = 1 => cwd = <<"OrthoFinder", fs.runs[1]>>
       /\ (Len(fs.runs) > 1 /\ FirstChoice(fs.runs, stdin) # 0)
             => cwd = <<"OrthoFinder", fs.runs[FirstChoice(fs.runs, stdin)]>>

====
